---- MODULE Spec2Model ----
(***************************************************************************)
(* Entitlement and usage ledger of the lookup bot: the users, referrals,   *)
(* redeem_codes, blacklist, protected_numbers and search_logs tables of    *)
(* database.py and the handlers of bot.py that read and write them.        *)
(*                                                                         *)
(* Every Database method opens its own sqlite3 connection, so the store is *)
(* the only synchronisation point.  One step of the model is one store     *)
(* access as sqlite3 commits it: a SELECT is one step, and the statements  *)
(* between an implicit BEGIN (the first INSERT/UPDATE on a connection) and *)
(* commit() are one step.  A handler is a process that walks through its   *)
(* store accesses; handlers of different requests interleave between them. *)
(***************************************************************************)
EXTENDS Integers, Sequences, FiniteSets, TLC

(***************************************************************************)
(* Program constants                                                       *)
(***************************************************************************)
DAILY_FREE_GROUP_LIMIT == 30
REFERRAL_REWARD_DIAMOND == 1
RC_PDF_COST == 5

\* User ids are abstract small integers; OWNER_ID stands for config.OWNER_ID.
\* config.py lists the owner in SUDO_USERS, config.example.py a sudo user
\* who is not the owner (SUDO_ID); the model has both.
OWNER_ID == 9
SUDO_ID == 8
SUDO_USERS == {OWNER_ID, SUDO_ID}

is_owner(user_id) == user_id = OWNER_ID
is_sudo(user_id) == user_id \in SUDO_USERS
is_admin(user_id) == is_owner(user_id) \/ is_sudo(user_id)

(***************************************************************************)
(* Bounds of the model                                                     *)
(***************************************************************************)
NumProcs == 2          \* handlers in flight at once
MaxBalance == 3        \* largest balance an account starts with
MaxAmount == 2         \* largest amount an administrator passes
MaxDay == 2            \* calendar dates 1..MaxDay
MaxDeductCalls == 2    \* deduct calls per behaviour
MaxRedeemCalls == 3    \* redeem / createcode commands per behaviour
MaxDailyCalls == 3     \* ensure_daily_counter calls per behaviour
MaxStartCalls == 2     \* /start commands per behaviour
MaxAdminCalls == 3     \* administrator commands per behaviour
MaxLookups == 2        \* lookups per behaviour, concurrent runs
MaxSeqLookups == 1     \* lookups per behaviour, general one-at-a-time runs
ScenarioExtra == 2     \* lookups past the free limit in the scenario run

Procs == 1..NumProcs
Days == 1..MaxDay
Members == {1, 2}                      \* non-privileged users
UserIds == Members \cup {OWNER_ID}
Amounts == (0 - MaxAmount)..MaxAmount  \* int(context.args[..]) accepts any sign
CodeArgs == {"abc", "ABC", "XYZ"}      \* code strings as typed by users
Queries == {"q_clean", "q_black", "q_prot"}

\* str.upper() on the code strings of the model
Upper(code) == IF code = "abc" THEN "ABC" ELSE code

(***************************************************************************)
(* Rows                                                                    *)
(***************************************************************************)
\* users row as INSERTed by add_user: the DEFAULT 0 columns, NULL (0) dates
NewUserRow(referrer_id, now) ==
    [credits |-> 0, diamonds |-> 0, referrer_id |-> referrer_id,
     referred_count |-> 0, is_banned |-> FALSE, daily_search_count |-> 0,
     last_search_date |-> 0, last_active |-> now]

\* a row with chosen balances and counters, for initial states
UserRow(credits, diamonds, count, date, banned) ==
    [NewUserRow(0, 0) EXCEPT !.credits = credits, !.diamonds = diamonds,
                             !.daily_search_count = count,
                             !.last_search_date = date, !.is_banned = banned]

NoRow == NewUserRow(0, 0)

\* Database.get_user: the row, or None
get_user(U, user_id) ==
    IF user_id \in DOMAIN U THEN [found |-> TRUE, row |-> U[user_id]]
    ELSE [found |-> FALSE, row |-> NoRow]

(***************************************************************************)
(* Database.update_diamonds / update_credits: one UPDATE and its rowcount  *)
(***************************************************************************)
update_diamonds_unguarded(U, user_id, amount, operation) ==
    IF operation \in {"add", "deduct", "set"} /\ user_id \in DOMAIN U
    THEN [users |-> [U EXCEPT ![user_id].diamonds =
                        IF operation = "add" THEN @ + amount
                        ELSE IF operation = "deduct" THEN @ - amount
                        ELSE amount],
          success |-> TRUE]
    ELSE [users |-> U, success |-> FALSE]

update_diamonds(U, user_id, amount, operation) ==
    IF operation = "add" THEN
        IF user_id \in DOMAIN U
        THEN [users |-> [U EXCEPT ![user_id].diamonds = @ + amount], success |-> TRUE]
        ELSE [users |-> U, success |-> FALSE]
    ELSE IF operation = "deduct" THEN
        IF user_id \in DOMAIN U /\ U[user_id].diamonds >= amount
        THEN [users |-> [U EXCEPT ![user_id].diamonds = @ - amount], success |-> TRUE]
        ELSE [users |-> U, success |-> FALSE]
    ELSE IF operation = "set" THEN
        IF user_id \in DOMAIN U
        THEN [users |-> [U EXCEPT ![user_id].diamonds = amount], success |-> TRUE]
        ELSE [users |-> U, success |-> FALSE]
    ELSE [users |-> U, success |-> FALSE]   \* no statement ran: rowcount is -1

\* a deduct that takes the amount twice
update_credits_twice(U, user_id, amount, operation) ==
    IF operation = "deduct" /\ user_id \in DOMAIN U /\ U[user_id].credits >= amount
    THEN [users |-> [U EXCEPT ![user_id].credits = @ - 2 * amount], success |-> TRUE]
    ELSE IF operation = "add" /\ user_id \in DOMAIN U
    THEN [users |-> [U EXCEPT ![user_id].credits = @ + amount], success |-> TRUE]
    ELSE [users |-> U, success |-> FALSE]

\* update_credits has no "set" branch: any other operation runs no statement
update_credits(U, user_id, amount, operation) ==
    IF operation = "add" THEN
        IF user_id \in DOMAIN U
        THEN [users |-> [U EXCEPT ![user_id].credits = @ + amount], success |-> TRUE]
        ELSE [users |-> U, success |-> FALSE]
    ELSE IF operation = "deduct" THEN
        IF user_id \in DOMAIN U /\ U[user_id].credits >= amount
        THEN [users |-> [U EXCEPT ![user_id].credits = @ - amount], success |-> TRUE]
        ELSE [users |-> U, success |-> FALSE]
    ELSE [users |-> U, success |-> FALSE]

(***************************************************************************)
(* Database.add_user: one transaction.  The INSERT into users raises       *)
(* IntegrityError on an existing user_id (PRIMARY KEY), nothing is         *)
(* committed and the call returns False.  The referrer is looked up after  *)
(* the INSERT, so the new row itself is visible to that SELECT.            *)
(***************************************************************************)
add_user_no_conflict(U, R, user_id, referrer_id, now) ==
    LET U1 == IF user_id \in DOMAIN U THEN U
              ELSE U @@ (user_id :> NewUserRow(referrer_id, now))
        ref_exists == referrer_id # 0 /\ referrer_id \in DOMAIN U1
    IN  IF ref_exists
        THEN [users |-> [U1 EXCEPT ![referrer_id].referred_count = @ + 1,
                                   ![referrer_id].diamonds = @ + REFERRAL_REWARD_DIAMOND],
              referrals |-> Append(R, [referrer_id |-> referrer_id, referred_id |-> user_id]),
              ok |-> TRUE]
        ELSE [users |-> U1, referrals |-> R, ok |-> TRUE]

\* an add_user that rewards the referrer without counting the referral
add_user_uncounted(U, R, user_id, referrer_id, now) ==
    LET r == add_user_no_conflict(U, R, user_id, referrer_id, now)
    IN  IF user_id \in DOMAIN U THEN [users |-> U, referrals |-> R, ok |-> FALSE]
        ELSE [r EXCEPT !.users = [v \in DOMAIN r.users |->
                          [r.users[v] EXCEPT !.referred_count =
                              IF v \in DOMAIN U THEN U[v].referred_count ELSE 0]]]

add_user(U, R, user_id, referrer_id, now) ==
    IF user_id \in DOMAIN U
    THEN [users |-> U, referrals |-> R, ok |-> FALSE]
    ELSE LET U1 == U @@ (user_id :> NewUserRow(referrer_id, now))
             ref_exists == referrer_id # 0 /\ referrer_id \in DOMAIN U1
         IN  IF ref_exists
             THEN [users |-> [U1 EXCEPT ![referrer_id].referred_count = @ + 1,
                                        ![referrer_id].diamonds = @ + REFERRAL_REWARD_DIAMOND],
                   referrals |-> Append(R, [referrer_id |-> referrer_id,
                                            referred_id |-> user_id]),
                   ok |-> TRUE]
             ELSE [users |-> U1, referrals |-> R, ok |-> TRUE]

\* What the database file holds after a statement of an open transaction:
\* sqlite3 begins a transaction before the first INSERT/UPDATE of a
\* connection and writes nothing through until commit(); a connection that
\* is closed or lost before commit() is rolled back.
after_statement_autocommit(committed, working) == working

after_statement(committed, working) == committed

(***************************************************************************)
(* Database.ensure_daily_counter, after get_user and datetime.now(): the   *)
(* comparison of the row read with today, and the UPDATE it leads to.      *)
(* The UPDATE has no guard on last_search_date.                            *)
(***************************************************************************)
needs_reset(row, date) == row.last_search_date # date

reset_daily(U, user_id, date) ==
    IF user_id \in DOMAIN U
    THEN [U EXCEPT ![user_id].daily_search_count = 0,
                   ![user_id].last_search_date = date]
    ELSE U

\* the dict ensure_daily_counter returns: the row read, patched when it reset
refreshed(row, date) ==
    IF needs_reset(row, date)
    THEN [row EXCEPT !.daily_search_count = 0, !.last_search_date = date]
    ELSE row

(***************************************************************************)
(* Redeem codes.  A code row is [code_type, amount, used_by]; used_by = 0  *)
(* is NULL.  create_redeem_code stores code.upper(); the PRIMARY KEY makes *)
(* a second INSERT of the same code fail.                                  *)
(***************************************************************************)
NoCode == [code_type |-> "none", amount |-> 0, used_by |-> 0]

create_redeem_code(C, code, amount, code_type) ==
    IF Upper(code) \in DOMAIN C
    THEN [codes |-> C, ok |-> FALSE]
    ELSE [codes |-> C @@ (Upper(code) :> [code_type |-> code_type, amount |-> amount,
                                           used_by |-> 0]),
          ok |-> TRUE]

\* redeem_code, the SELECT: the row of code.upper(), or None
redeem_select(C, code) ==
    IF Upper(code) \in DOMAIN C THEN [found |-> TRUE, row |-> C[Upper(code)]]
    ELSE [found |-> FALSE, row |-> NoCode]

\* redeem_code, the verdict on the row read
redeem_verdict(sel) ==
    IF ~sel.found THEN "Invalid code."
    ELSE IF sel.row.used_by # 0 THEN "Code already used."
    ELSE "Redeemed"

\* redeem_code, the two UPDATEs and the commit, from the row read earlier
redeem_apply(U, C, user_id, code, row) ==
    LET U1 == IF user_id \in DOMAIN U
              THEN IF row.code_type = "diamonds"
                   THEN [U EXCEPT ![user_id].diamonds = @ + row.amount]
                   ELSE [U EXCEPT ![user_id].credits = @ + row.amount]
              ELSE U
        C1 == IF Upper(code) \in DOMAIN C
              THEN [C EXCEPT ![Upper(code)].used_by = user_id]
              ELSE C
    IN  [users |-> U1, codes |-> C1]

(***************************************************************************)
(* handle_lookup: the decisions it takes on what it read                   *)
(***************************************************************************)
\* the membership gate: enforce_membership is asked for non-admins only;
\* `member` is what the channel-membership collaborator answers
membership_ok_always(user_id, member) == TRUE

membership_ok(user_id, member) == is_admin(user_id) \/ member

\* Database.is_banned: bool(user and user.get("is_banned"))
is_banned_never(U, user_id) == FALSE

is_banned(U, user_id) == get_user(U, user_id).found /\ get_user(U, user_id).row.is_banned

\* the direct-message restriction: chat_type == "private" and not is_admin
scope_denied_never(user_id, chat_type) == FALSE

scope_denied(user_id, chat_type) == chat_type = "private" /\ ~is_admin(user_id)

\* the content gate: is_blacklisted(query) for everyone, then
\* is_protected(query) and not is_owner(user_id)
content_verdict_admins_exempt(user_id, query, B, P) ==
    IF query \in B /\ ~is_admin(user_id) THEN "Blacklisted"
    ELSE IF query \in P /\ ~is_admin(user_id) THEN "Protected"
    ELSE "pass"

content_verdict(user_id, query, B, P) ==
    IF query \in B THEN "Blacklisted"
    ELSE IF query \in P /\ ~is_owner(user_id) THEN "Protected"
    ELSE "pass"

\* Database.log_search: one INSERT into search_logs
log_search_dropped(L, user_id, search_type, query) == L

log_search(L, user_id, search_type, query) ==
    Append(L, [user_id |-> user_id, search_type |-> search_type, query |-> query])

\* charge for everyone, in every chat
charge_of_everyone(user_id, chat_type, cost_diamonds) == cost_diamonds

\* bot.py: daily_used >= DAILY_FREE_GROUP_LIMIT
quota_reached_off_by_one(daily_used) == daily_used > DAILY_FREE_GROUP_LIMIT

quota_reached(daily_used) == daily_used >= DAILY_FREE_GROUP_LIMIT

\* the counter increment: UPDATE ... daily_search_count + 1, last_search_date = now
increment_daily(U, user_id, date) ==
    IF user_id \in DOMAIN U
    THEN [U EXCEPT ![user_id].daily_search_count = @ + 1,
                   ![user_id].last_search_date = date]
    ELSE U

\* charge = 0 if is_admin(user_id) else (cost_diamonds if private else 0)
charge_of(user_id, chat_type, cost_diamonds) ==
    IF is_admin(user_id) THEN 0
    ELSE IF chat_type = "private" THEN cost_diamonds ELSE 0

(***************************************************************************)
(* State                                                                   *)
(***************************************************************************)
VARIABLES
    users,              \* users table: user_id -> row, for the ids that have a row
    referrals,          \* referrals table, in insertion order
    redeem_codes,       \* redeem_codes table: stored code -> row
    blacklist,          \* blacklist.identifier values
    protected_numbers,  \* protected_numbers.number values
    search_logs,        \* search_logs table, in insertion order
    today,              \* the date datetime.now() falls on
    clock,              \* requests received so far
    pc,                 \* where each handler stands
    loc,                \* each handler's arguments and local variables
    obs,                \* history: what the handlers have done so far
    users0              \* the users table of the initial state

vars == <<users, referrals, redeem_codes, blacklist, protected_numbers,
          search_logs, today, clock, pc, loc, obs, users0>>

Fields == {"credits", "diamonds"}
StoredCodes == {Upper(c) : c \in CodeArgs}

NoUsers == [u \in {} |-> NoRow]
NoCodes == [c \in {} |-> NoCode]

\* a handler's locals before its request arrives
Loc0 ==
    [op |-> "none", user |-> 0, field |-> "none", operation |-> "none",
     amount |-> 0, code |-> "none", code_type |-> "none", referrer |-> 0,
     chat |-> "none", cost |-> 0, query |-> "none", member |-> TRUE,
     fetch_ok |-> TRUE, found |-> FALSE, row |-> NoRow, crow |-> NoCode,
     date |-> 0, success |-> FALSE, outcome |-> "none", via |-> "none",
     before |-> NoRow, logs |-> 0, tx_users |-> NoUsers, tx_referrals |-> <<>>]

Obs0 ==
    [deducted  |-> [u \in UserIds |-> [f \in Fields |-> 0]],
     redeem_ok |-> [c \in StoredCodes |-> 0],
     credited  |-> [c \in StoredCodes |-> 0],
     resets    |-> [u \in UserIds |-> [d \in Days |-> 0]],
     free      |-> [u \in UserIds |-> [d \in Days |-> 0]],
     charged   |-> [u \in UserIds |-> [d \in Days |-> 0]],
     paid      |-> [u \in UserIds |-> 0],
     created   |-> [u \in UserIds |-> 0]]

\* everything but the users table, as after init_database, and idle handlers
InitTables ==
    /\ referrals = <<>>
    /\ redeem_codes = NoCodes
    /\ blacklist = {}
    /\ protected_numbers = {}
    /\ search_logs = <<>>
    /\ today = 1
    /\ clock = 0
    /\ pc = [p \in Procs |-> "idle"]
    /\ loc = [p \in Procs |-> Loc0]
    /\ users0 = users

\* nothing has happened yet
InitRest ==
    /\ InitTables
    /\ obs = Obs0

Ready(p) == pc[p] \in {"idle", "done"}

\* what stays of a handler's locals once it has returned: who asked for what
Returned(l) ==
    [Loc0 EXCEPT !.op = l.op, !.user = l.user, !.field = l.field,
                 !.code = l.code, !.chat = l.chat, !.query = l.query,
                 !.cost = l.cost, !.referrer = l.referrer, !.date = l.date,
                 !.via = l.via, !.before = l.before, !.member = l.member,
                 !.logs = l.logs]

\* the calendar date moves on
NewDay ==
    /\ today < MaxDay
    /\ today' = today + 1
    /\ UNCHANGED <<users, referrals, redeem_codes, blacklist, protected_numbers,
                   search_logs, clock, pc, loc, obs, users0>>

(***************************************************************************)
(* Deduct calls: remove_diamonds_command and the lookup charges call       *)
(* update_diamonds / update_credits with operation "deduct".               *)
(***************************************************************************)
DeductCall(p) ==
    /\ Ready(p)
    /\ clock < MaxDeductCalls
    /\ \E u \in DOMAIN users, f \in Fields, a \in Amounts :
          loc' = [loc EXCEPT ![p] = [Loc0 EXCEPT !.op = "deduct", !.user = u,
                                                 !.field = f, !.amount = a,
                                                 !.operation = "deduct"]]
    /\ pc' = [pc EXCEPT ![p] = "deduct"]
    /\ clock' = clock + 1
    /\ UNCHANGED <<users, referrals, redeem_codes, blacklist, protected_numbers,
                   search_logs, today, obs, users0>>

DeductExec(p) ==
    /\ pc[p] = "deduct"
    /\ LET l == loc[p]
           r == IF l.field = "diamonds"
                THEN update_diamonds(users, l.user, l.amount, l.operation)
                ELSE update_credits(users, l.user, l.amount, l.operation)
       IN  /\ users' = r.users
           /\ loc' = [loc EXCEPT ![p] = [Returned(l) EXCEPT !.success = r.success]]
           /\ obs' = IF r.success
                     THEN [obs EXCEPT !.deducted[l.user][l.field] = @ + l.amount]
                     ELSE obs
    /\ pc' = [pc EXCEPT ![p] = "done"]
    /\ UNCHANGED <<referrals, redeem_codes, blacklist, protected_numbers,
                   search_logs, today, clock, users0>>

\* one account holding any balance up to MaxBalance of each kind
InitDeduct ==
    /\ \E b \in 0..MaxBalance : users = (1 :> UserRow(b, b, 0, 0, FALSE))
    /\ InitRest

NextDeduct == \E p \in Procs : DeductCall(p) \/ DeductExec(p)

SpecDeduct == InitDeduct /\ [][NextDeduct]_vars

Balance(U, u, f) == IF f = "diamonds" THEN U[u].diamonds ELSE U[u].credits

\* C1: under any interleaving of deduct calls on an account, its balance is
\* never negative and the amounts of the deducts that reported success sum
\* to no more than the balance the account started with.
C1_NoOverdraw ==
    \A u \in DOMAIN users : \A f \in Fields :
        /\ Balance(users, u, f) >= 0
        /\ obs.deducted[u][f] <= Balance(users0, u, f)
        /\ Balance(users, u, f) = Balance(users0, u, f) - obs.deducted[u][f]

\* C1 witness: two deducts have returned on one
\* account; one reported success, one reported failure.
C1_Witness ==
    \E p, q \in Procs :
        /\ p # q
        /\ pc[p] = "done" /\ pc[q] = "done"
        /\ loc[p].op = "deduct" /\ loc[q].op = "deduct"
        /\ loc[p].user = 1 /\ loc[q].user = 1 /\ loc[p].field = loc[q].field
        /\ loc[p].success /\ ~loc[q].success

(***************************************************************************)
(* update_credits / update_diamonds called with any of the three modes of  *)
(* the balance adjustment                                                  *)
(***************************************************************************)
Modes == {"add", "deduct", "set"}

\* one call: the UPDATE the mode leads to, and the bool returned
Adjust(p) ==
    /\ Ready(p)
    /\ clock < MaxAdminCalls
    /\ \E u \in Members, f \in Fields, a \in 0..MaxAmount, m \in Modes :
          LET r == IF f = "diamonds" THEN update_diamonds(users, u, a, m)
                   ELSE update_credits(users, u, a, m)
          IN  /\ users' = r.users
              /\ loc' = [loc EXCEPT ![p] = [Loc0 EXCEPT !.op = "adjust", !.user = u,
                                                     !.field = f, !.amount = a,
                                                     !.operation = m,
                                                     !.found = u \in DOMAIN users,
                                                     !.success = r.success]]
    /\ pc' = [pc EXCEPT ![p] = "done"]
    /\ clock' = clock + 1
    /\ UNCHANGED <<referrals, redeem_codes, blacklist, protected_numbers,
                   search_logs, today, obs, users0>>

\* one call after the other
NextAdjust == Adjust(1)

\* user 1 holds any balance up to MaxBalance of each kind; user 2 has no row
SpecAdjust == InitDeduct /\ [][NextAdjust]_vars

\* C22: for an existing user, a call with mode "set" and value v reports
\* success and leaves the field at v, for credits as for diamonds.
C22_SetBothFields ==
    (/\ pc[1] = "done" /\ loc[1].op = "adjust"
     /\ loc[1].operation = "set" /\ loc[1].found)
    => /\ loc[1].success
       /\ Balance(users, loc[1].user, loc[1].field) = loc[1].amount

(***************************************************************************)
(* Redeem codes: create_code_command and redeem_command                    *)
(***************************************************************************)
\* /createcode diamonds|credits CODE AMOUNT from an administrator: the type
\* is checked, the amount is any int, the code is upper-cased.  One INSERT.
CreateCode ==
    /\ clock < MaxRedeemCalls
    /\ \E t \in Fields, c \in CodeArgs, a \in Amounts :
          redeem_codes' = create_redeem_code(redeem_codes, Upper(c), a, t).codes
    /\ clock' = clock + 1
    /\ UNCHANGED <<users, referrals, blacklist, protected_numbers, search_logs,
                   today, pc, loc, obs, users0>>

\* /redeem CODE arrives: code = context.args[0].strip().upper()
RedeemCall(p) ==
    /\ Ready(p)
    /\ clock < MaxRedeemCalls
    /\ \E u \in Members, c \in CodeArgs :
          loc' = [loc EXCEPT ![p] = [Loc0 EXCEPT !.op = "redeem", !.user = u,
                                                 !.code = Upper(c)]]
    /\ pc' = [pc EXCEPT ![p] = "redeem_select"]
    /\ clock' = clock + 1
    /\ UNCHANGED <<users, referrals, redeem_codes, blacklist, protected_numbers,
                   search_logs, today, obs, users0>>

\* redeem_code: the SELECT, and the two early returns
RedeemSelect(p) ==
    /\ pc[p] = "redeem_select"
    /\ LET l == loc[p]
           sel == redeem_select(redeem_codes, l.code)
           verdict == redeem_verdict(sel)
       IN  IF verdict = "Redeemed"
           THEN /\ loc' = [loc EXCEPT ![p].crow = sel.row]
                /\ pc' = [pc EXCEPT ![p] = "redeem_apply"]
           ELSE /\ loc' = [loc EXCEPT ![p] = [Returned(l) EXCEPT !.outcome = verdict]]
                /\ pc' = [pc EXCEPT ![p] = "done"]
    /\ UNCHANGED <<users, referrals, redeem_codes, blacklist, protected_numbers,
                   search_logs, today, clock, obs, users0>>

\* redeem_code: UPDATE users, UPDATE redeem_codes, commit, return True
RedeemApply(p) ==
    /\ pc[p] = "redeem_apply"
    /\ LET l == loc[p]
           r == redeem_apply(users, redeem_codes, l.user, l.code, l.crow)
           f == IF l.crow.code_type = "diamonds" THEN "diamonds" ELSE "credits"
           gain == IF l.user \in DOMAIN users
                   THEN Balance(r.users, l.user, f) - Balance(users, l.user, f)
                   ELSE 0
       IN  /\ users' = r.users
           /\ redeem_codes' = r.codes
           /\ loc' = [loc EXCEPT ![p] = [Returned(l) EXCEPT !.outcome = "Redeemed",
                                                           !.success = TRUE]]
           /\ obs' = [obs EXCEPT !.redeem_ok[Upper(l.code)] = @ + 1,
                                 !.credited[Upper(l.code)] = @ + gain]
    /\ pc' = [pc EXCEPT ![p] = "done"]
    /\ UNCHANGED <<referrals, blacklist, protected_numbers, search_logs, today,
                   clock, users0>>

\* users X = 1 and Y = 2 are registered with empty balances; no code exists
InitRedeem ==
    /\ users = [u \in Members |-> NewUserRow(0, 0)]
    /\ InitRest

NextRedeem ==
    \/ CreateCode
    \/ \E p \in Procs : RedeemCall(p) \/ RedeemSelect(p) \/ RedeemApply(p)

SpecRedeem == InitRedeem /\ [][NextRedeem]_vars

\* C2: for every redeem code, over any interleaving of redeem_code calls,
\* at most one call returns success.
C2_SingleClaim ==
    \A c \in DOMAIN redeem_codes : obs.redeem_ok[c] <= 1

\* C3: the reward of a code is applied exactly once: the total credited to
\* all accounts for a code is its amount once it is used, and nothing before.
C3_RewardOnce ==
    \A c \in DOMAIN redeem_codes :
        obs.credited[c] = IF redeem_codes[c].used_by # 0
                          THEN redeem_codes[c].amount ELSE 0

\* C21: once a code's used_by is set no step changes it, and a redeem_code
\* call that completes on a code already used changes no account.
C21_UsedOnce ==
    [][\A c \in DOMAIN redeem_codes :
          redeem_codes[c].used_by # 0 =>
             /\ redeem_codes'[c].used_by = redeem_codes[c].used_by
             /\ \A p \in Procs :
                   (pc[p] = "redeem_apply" /\ pc'[p] = "done" /\ loc[p].code = c)
                      => users' = users]_vars

(***************************************************************************)
(* ensure_user_record, update_last_active and ensure_daily_counter, as     *)
(* start_command, format_home_text and handle_lookup call them             *)
(***************************************************************************)
\* where a handler goes on once the step at label `at` is over
After(op, at) ==
    IF at = "eur" THEN "touch"
    ELSE IF at = "touch" THEN (IF op = "start" THEN "edc_get" ELSE "h_ban")
    ELSE IF op = "lookup" THEN "h_quota" ELSE "done"       \* at = "edc"

\* a handler returns: its outcome is kept, its other locals are dropped
Finish(p, outcome) ==
    /\ loc' = [loc EXCEPT ![p] = [Returned(loc[p]) EXCEPT !.outcome = outcome]]
    /\ pc' = [pc EXCEPT ![p] = "done"]

\* ensure_user_record: existing = db.get_user(user.id)
EurGet(p) ==
    /\ pc[p] = "eur_get"
    /\ pc' = [pc EXCEPT ![p] = IF get_user(users, loc[p].user).found
                               THEN After(loc[p].op, "eur") ELSE "eur_add"]
    /\ UNCHANGED <<users, referrals, redeem_codes, blacklist, protected_numbers,
                   search_logs, today, clock, loc, obs, users0>>

\* ensure_user_record: db.add_user(...); the get_user that follows only
\* reads the row back for the caller
EurAdd(p) ==
    /\ pc[p] = "eur_add"
    /\ LET l == loc[p]
           r == add_user(users, referrals, l.user, l.referrer, clock)
       IN  /\ users' = r.users
           /\ referrals' = r.referrals
           /\ loc' = [loc EXCEPT ![p].via = IF r.ok THEN "created" ELSE "conflict"]
           /\ obs' = IF r.ok THEN [obs EXCEPT !.created[l.user] = @ + 1] ELSE obs
           /\ pc' = [pc EXCEPT ![p] = After(l.op, "eur")]
    /\ UNCHANGED <<redeem_codes, blacklist, protected_numbers, search_logs,
                   today, clock, users0>>

\* db.update_last_active(user_id)
Touch(p) ==
    /\ pc[p] = "touch"
    /\ users' = IF loc[p].user \in DOMAIN users
                THEN [users EXCEPT ![loc[p].user].last_active = clock]
                ELSE users
    /\ pc' = [pc EXCEPT ![p] = After(loc[p].op, "touch")]
    /\ UNCHANGED <<referrals, redeem_codes, blacklist, protected_numbers,
                   search_logs, today, clock, loc, obs, users0>>

\* ensure_daily_counter: user = self.get_user(user_id); {} when there is no row
EnsureGet(p) ==
    /\ pc[p] = "edc_get"
    /\ LET g == get_user(users, loc[p].user)
       IN  IF g.found
           THEN /\ loc' = [loc EXCEPT ![p].found = TRUE, ![p].row = g.row]
                /\ pc' = [pc EXCEPT ![p] = "edc_now"]
           ELSE IF After(loc[p].op, "edc") = "done"
           THEN Finish(p, "home")
           ELSE /\ loc' = [loc EXCEPT ![p].found = FALSE, ![p].row = NoRow]
                /\ pc' = [pc EXCEPT ![p] = After(loc[p].op, "edc")]
    /\ UNCHANGED <<users, referrals, redeem_codes, blacklist, protected_numbers,
                   search_logs, today, clock, obs, users0>>

\* ensure_daily_counter: today = datetime.now().strftime("%Y-%m-%d")
EnsureNow(p) ==
    /\ pc[p] = "edc_now"
    /\ loc' = [loc EXCEPT ![p].date = today]
    /\ pc' = [pc EXCEPT ![p] = "edc_update"]
    /\ UNCHANGED <<users, referrals, redeem_codes, blacklist, protected_numbers,
                   search_logs, today, clock, obs, users0>>

\* ensure_daily_counter: the comparison, the UPDATE and the returned dict
EnsureUpdate(p) ==
    /\ pc[p] = "edc_update"
    /\ LET l == loc[p]
           reset == needs_reset(l.row, l.date)
           l2 == [l EXCEPT !.row = refreshed(l.row, l.date)]
       IN  /\ users' = IF reset THEN reset_daily(users, l.user, l.date) ELSE users
           /\ obs' = IF reset THEN [obs EXCEPT !.resets[l.user][l.date] = @ + 1]
                     ELSE obs
           /\ IF After(l.op, "edc") = "done"
              THEN /\ loc' = [loc EXCEPT ![p] = [Returned(l2) EXCEPT !.outcome = "home"]]
                   /\ pc' = [pc EXCEPT ![p] = "done"]
              ELSE /\ loc' = [loc EXCEPT ![p] = l2]
                   /\ pc' = [pc EXCEPT ![p] = After(l.op, "edc")]
    /\ UNCHANGED <<referrals, redeem_codes, blacklist, protected_numbers,
                   search_logs, today, clock, users0>>

\* a handler that only shows the home text (format_home_text from the
\* back_main button): safe_ensure_daily_counter(user.id)
DailyCall(p) ==
    /\ Ready(p)
    /\ clock < MaxDailyCalls
    /\ \E u \in Members :
          loc' = [loc EXCEPT ![p] = [Loc0 EXCEPT !.op = "daily", !.user = u]]
    /\ pc' = [pc EXCEPT ![p] = "edc_get"]
    /\ clock' = clock + 1
    /\ UNCHANGED <<users, referrals, redeem_codes, blacklist, protected_numbers,
                   search_logs, today, obs, users0>>

\* user 1 has a row: never searched, or searched on day 1 up to MaxBalance
\* times; user 2 has no row
InitDaily ==
    /\ \E c \in 0..MaxBalance :
          users = (1 :> UserRow(0, 0, c, IF c = 0 THEN 0 ELSE 1, FALSE))
    /\ InitRest

NextDaily ==
    \/ NewDay
    \/ \E p \in Procs : DailyCall(p) \/ EnsureGet(p) \/ EnsureNow(p) \/ EnsureUpdate(p)

SpecDaily == InitDaily /\ [][NextDaily]_vars

\* C4: for each user and each calendar date, ensure_daily_counter sets
\* daily_search_count to 0 at most once.
C4_ResetOncePerDay ==
    \A u \in UserIds : \A d \in Days : obs.resets[u][d] <= 1

(***************************************************************************)
(* start_command: /start [referrer] in a private chat                      *)
(***************************************************************************)
\* the referrer argument as start_command parses it: int(context.args[0]),
\* dropped when it is the sender's own id; 0 stands for None
parsed_referrer_raw(user_id, arg) == arg

parsed_referrer(user_id, arg) == IF arg = user_id THEN 0 ELSE arg

\* /start arrives with its argument drawn from `args` (0: no argument);
\* enforce_membership (no store access) ends it for a user who has not
\* joined the channels
StartFrom(p, args) ==
    /\ Ready(p)
    /\ clock < MaxStartCalls
    /\ \E u \in Members, arg \in args, member \in BOOLEAN :
          LET l == [Loc0 EXCEPT !.op = "start", !.user = u,
                                !.referrer = parsed_referrer(u, arg)]
          IN  IF member
              THEN /\ loc' = [loc EXCEPT ![p] = l]
                   /\ pc' = [pc EXCEPT ![p] = "eur_get"]
              ELSE /\ loc' = [loc EXCEPT ![p] = [Returned(l) EXCEPT !.outcome = "NotMember"]]
                   /\ pc' = [pc EXCEPT ![p] = "done"]
    /\ clock' = clock + 1
    /\ UNCHANGED <<users, referrals, redeem_codes, blacklist, protected_numbers,
                   search_logs, today, obs, users0>>

\* /start with or without an argument
StartCall(p) == StartFrom(p, {0} \cup UserIds)

\* user 1 is registered, has referred nobody and holds MaxBalance diamonds
\* (from /adddiamonds); user 2 and the owner have no row yet
InitRefer ==
    /\ users = (1 :> UserRow(0, MaxBalance, 0, 0, FALSE))
    /\ InitRest

NextRefer ==
    \E p \in Procs :
        \/ StartCall(p) \/ EurGet(p) \/ EurAdd(p) \/ Touch(p)
        \/ EnsureGet(p) \/ EnsureNow(p) \/ EnsureUpdate(p)

SpecRefer == InitRefer /\ [][NextRefer]_vars

\* referrals rows that name u as the referred user / r as the referrer
ReferralsOf(u) == {i \in 1..Len(referrals) : referrals[i].referred_id = u}
ReferralsBy(r) == {i \in 1..Len(referrals) : referrals[i].referrer_id = r}

\* C5: however often and however concurrently an account is created for a
\* new user id with an existing referrer, there is one INSERT of its users
\* row, one referrals row for it, and the referrer's referred_count and
\* diamonds have risen by 1 and by REFERRAL_REWARD_DIAMOND for it and for
\* nothing else.
C5_ReferralOnce ==
    /\ \A u \in UserIds : obs.created[u] <= 1
    /\ \A u \in DOMAIN users :
          u \notin DOMAIN users0 =>
             /\ obs.created[u] = 1
             /\ Cardinality(ReferralsOf(u)) =
                   IF users[u].referrer_id \in DOMAIN users0 THEN 1 ELSE 0
             /\ \A i \in ReferralsOf(u) :
                   referrals[i].referrer_id = users[u].referrer_id
    /\ \A r \in DOMAIN users0 :
          /\ users[r].referred_count =
                users0[r].referred_count + Cardinality(ReferralsBy(r))
          /\ users[r].diamonds =
                users0[r].diamonds + REFERRAL_REWARD_DIAMOND * Cardinality(ReferralsBy(r))

\* C5 witness: two /start handlers for the new user 2 with referrer 1 both
\* found no row and both ran add_user; both have returned, and the referrer
\* holds one reward.
C5_Witness ==
    /\ \A p \in Procs :
          /\ pc[p] = "done" /\ loc[p].op = "start" /\ loc[p].outcome = "home"
          /\ loc[p].user = 2 /\ loc[p].referrer = 1
    /\ \E p, q \in Procs : loc[p].via = "created" /\ loc[q].via = "conflict"
    /\ users[1].diamonds = users0[1].diamonds + REFERRAL_REWARD_DIAMOND

\* C30: every account's referred_count is the number of referrals rows
\* naming it as referrer, no user is the referred_id of two rows, and the
\* referred_id of every row is an account whose referrer_id is the row's
\* referrer.
C30_ReferralsConsistent ==
    /\ \A u \in DOMAIN users : users[u].referred_count = Cardinality(ReferralsBy(u))
    /\ \A u \in UserIds : Cardinality(ReferralsOf(u)) <= 1
    /\ \A i \in 1..Len(referrals) :
          /\ referrals[i].referred_id \in DOMAIN users
          /\ users[referrals[i].referred_id].referrer_id = referrals[i].referrer_id

\* C30 witness: user 2 was created with referrer 1 while a second /start of
\* user 2 was in flight; there is one referrals row and user 1 counts it.
C30_Witness ==
    /\ referrals = <<[referrer_id |-> 1, referred_id |-> 2]>>
    /\ users[1].referred_count = 1
    /\ 2 \in DOMAIN users /\ users[2].referrer_id = 1
    /\ \E p \in Procs : pc[p] = "done" /\ loc[p].user = 2 /\ loc[p].via = "conflict"

(***************************************************************************)
(* Administrator commands on balances: /adddiamonds and /removediamonds.   *)
(* The sender passed is_admin; user id and amount are any int.             *)
(***************************************************************************)
AddDiamonds ==
    /\ clock < MaxAdminCalls
    /\ \E u \in UserIds, a \in Amounts :
          users' = update_diamonds(users, u, a, "add").users
    /\ clock' = clock + 1
    /\ UNCHANGED <<referrals, redeem_codes, blacklist, protected_numbers,
                   search_logs, today, pc, loc, obs, users0>>

RemoveDiamonds ==
    /\ clock < MaxAdminCalls
    /\ \E u \in UserIds, a \in Amounts :
          users' = update_diamonds(users, u, a, "deduct").users
    /\ clock' = clock + 1
    /\ UNCHANGED <<referrals, redeem_codes, blacklist, protected_numbers,
                   search_logs, today, pc, loc, obs, users0>>

\* users 1 and 2 are registered and hold the same balance of each kind
InitLedger ==
    /\ \E b \in 0..MaxBalance : users = [u \in Members |-> UserRow(b, b, 0, 0, FALSE)]
    /\ InitRest

NextLedger ==
    \/ AddDiamonds
    \/ RemoveDiamonds
    \/ CreateCode
    \/ \E p \in Procs : RedeemCall(p) \/ RedeemSelect(p) \/ RedeemApply(p)

SpecLedger == InitLedger /\ [][NextLedger]_vars

\* C6: in every reachable state every account has credits >= 0 and
\* diamonds >= 0.
C6_NonNegative ==
    \A u \in DOMAIN users : users[u].credits >= 0 /\ users[u].diamonds >= 0

(***************************************************************************)
(* handle_lookup                                                           *)
(***************************************************************************)
\* the lookup_type a command wrapper passes with its cost_diamonds
lookup_type_of(cost) == IF cost = RC_PDF_COST THEN "vehicle_rc_pdf" ELSE "number"

\* A lookup arrives.  `in` gives the users, chat types, queries and costs
\* the run draws from, `max` the number of requests of the run.  The
\* membership gate (enforce_membership, no store access) ends the request
\* of a non-admin who has not joined the channels.
LookupCall(p, in, max) ==
    /\ Ready(p)
    /\ clock < max
    /\ \E u \in in.users, ch \in in.chats, q \in in.queries, c \in in.costs,
          member \in in.members :
          LET l == [Loc0 EXCEPT !.op = "lookup", !.user = u, !.chat = ch,
                                !.query = q, !.cost = c, !.member = member,
                                !.before = get_user(users, u).row,
                                !.logs = Len(search_logs)]
          IN  IF ~membership_ok(u, member)
              THEN /\ loc' = [loc EXCEPT ![p] = [Returned(l) EXCEPT !.outcome = "NotMember"]]
                   /\ pc' = [pc EXCEPT ![p] = "done"]
              ELSE /\ loc' = [loc EXCEPT ![p] = l]
                   /\ pc' = [pc EXCEPT ![p] = "h_get"]
    /\ clock' = clock + 1
    /\ UNCHANGED <<users, referrals, redeem_codes, blacklist, protected_numbers,
                   search_logs, today, obs, users0>>

\* if not db.get_user(user_id): await ensure_user_record(user)
HGet(p) ==
    /\ pc[p] = "h_get"
    /\ pc' = [pc EXCEPT ![p] = IF get_user(users, loc[p].user).found
                               THEN "touch" ELSE "eur_get"]
    /\ UNCHANGED <<users, referrals, redeem_codes, blacklist, protected_numbers,
                   search_logs, today, clock, loc, obs, users0>>

\* db.is_banned(user_id), then the direct-message restriction
HBan(p) ==
    /\ pc[p] = "h_ban"
    /\ LET l == loc[p]
       IN  IF is_banned(users, l.user)
           THEN Finish(p, "Banned")
           ELSE IF scope_denied(l.user, l.chat)
           THEN Finish(p, "ScopeDenied")
           ELSE /\ pc' = [pc EXCEPT ![p] = IF l.chat # "private" /\ ~is_admin(l.user)
                                           THEN "edc_get" ELSE "h_content"]
                /\ loc' = loc
    /\ UNCHANGED <<users, referrals, redeem_codes, blacklist, protected_numbers,
                   search_logs, today, clock, obs, users0>>

\* the quota decision on the dict ensure_daily_counter returned, and the
\* credit deduction, whose result is not looked at
HQuota(p) ==
    /\ pc[p] = "h_quota"
    /\ LET l == loc[p]
           daily_used == IF l.found THEN l.row.daily_search_count ELSE 0
           credits == IF l.found THEN l.row.credits ELSE 0
       IN  IF quota_reached(daily_used)
           THEN IF credits <= 0
                THEN /\ Finish(p, "QuotaExhausted")
                     /\ users' = users
                ELSE /\ users' = update_credits(users, l.user, 1, "deduct").users
                     /\ loc' = [loc EXCEPT ![p].via = "credit"]
                     /\ pc' = [pc EXCEPT ![p] = "h_incr"]
           ELSE /\ users' = users
                /\ loc' = [loc EXCEPT ![p].via = "free"]
                /\ pc' = [pc EXCEPT ![p] = "h_incr"]
    /\ UNCHANGED <<referrals, redeem_codes, blacklist, protected_numbers,
                   search_logs, today, clock, obs, users0>>

\* the counter increment, on a connection of its own
HIncr(p) ==
    /\ pc[p] = "h_incr"
    /\ users' = increment_daily(users, loc[p].user, today)
    /\ obs' = [obs EXCEPT !.charged[loc[p].user][today] = @ + 1]
    /\ pc' = [pc EXCEPT ![p] = "h_content"]
    /\ UNCHANGED <<referrals, redeem_codes, blacklist, protected_numbers,
                   search_logs, today, clock, loc, users0>>

\* db.is_blacklisted(query), db.is_protected(query): neither table changes
\* while a lookup runs, so the two reads are one step
HContent(p) ==
    /\ pc[p] = "h_content"
    /\ LET l == loc[p]
           verdict == content_verdict(l.user, l.query, blacklist, protected_numbers)
       IN  IF verdict # "pass"
           THEN Finish(p, verdict)
           ELSE /\ pc' = [pc EXCEPT ![p] = "h_charge"]
                /\ loc' = loc
    /\ UNCHANGED <<users, referrals, redeem_codes, blacklist, protected_numbers,
                   search_logs, today, clock, obs, users0>>

\* the diamond charge: get_user, the balance check and the deduct
HCharge(p) ==
    /\ pc[p] = "h_charge"
    /\ LET l == loc[p]
           charge == charge_of(l.user, l.chat, l.cost)
           g == get_user(users, l.user)
           balance == IF g.found THEN g.row.diamonds ELSE 0
       IN  IF charge # 0
           THEN IF balance < charge
                THEN /\ Finish(p, "InsufficientDiamonds")
                     /\ users' = users
                ELSE /\ users' = update_diamonds(users, l.user, charge, "deduct").users
                     /\ loc' = [loc EXCEPT ![p].amount = charge]
                     /\ pc' = [pc EXCEPT ![p] = "h_log"]
           ELSE /\ users' = users
                /\ loc' = loc
                /\ pc' = [pc EXCEPT ![p] = "h_log"]
    /\ UNCHANGED <<referrals, redeem_codes, blacklist, protected_numbers,
                   search_logs, today, clock, obs, users0>>

\* "Searching..." and db.log_search: the request is allowed
HLog(p) ==
    /\ pc[p] = "h_log"
    /\ LET l == loc[p]
       IN  /\ search_logs' = log_search(search_logs, l.user,
                                         lookup_type_of(l.cost), l.query)
           /\ obs' = IF l.via = "free" THEN [obs EXCEPT !.free[l.user][l.date] = @ + 1]
                     ELSE IF l.via = "credit" THEN [obs EXCEPT !.paid[l.user] = @ + 1]
                     ELSE obs
    /\ pc' = [pc EXCEPT ![p] = "h_fetch"]
    /\ UNCHANGED <<users, referrals, redeem_codes, blacklist, protected_numbers,
                   today, clock, loc, users0>>

\* a fetch that gives back the quota slot and the credit when it fails
HFetchRefund(p) ==
    /\ pc[p] = "h_fetch"
    /\ \E ok \in BOOLEAN :
          LET l == loc[p]
              U1 == IF l.via \in {"free", "credit"}
                    THEN [users EXCEPT ![l.user].daily_search_count = @ - 1]
                    ELSE users
              U2 == IF l.via = "credit" THEN [U1 EXCEPT ![l.user].credits = @ + 1]
                    ELSE U1
          IN  /\ users' = IF ok THEN users ELSE U2
              /\ loc' = [loc EXCEPT ![p] = [Returned(l) EXCEPT !.outcome = "Allowed",
                                                              !.fetch_ok = ok,
                                                              !.amount = l.amount]]
    /\ pc' = [pc EXCEPT ![p] = "done"]
    /\ UNCHANGED <<referrals, redeem_codes, blacklist, protected_numbers,
                   search_logs, today, clock, obs, users0>>

\* the fetch collaborator returns a result or nothing; no refund either way
HFetch(p) ==
    /\ pc[p] = "h_fetch"
    /\ \E ok \in BOOLEAN :
          loc' = [loc EXCEPT ![p] = [Returned(loc[p]) EXCEPT !.outcome = "Allowed",
                                                            !.fetch_ok = ok,
                                                            !.amount = loc[p].amount]]
    /\ pc' = [pc EXCEPT ![p] = "done"]
    /\ UNCHANGED <<users, referrals, redeem_codes, blacklist, protected_numbers,
                   search_logs, today, clock, obs, users0>>

\* every step of a lookup handler after its arrival
LookupStep(p) ==
    \/ HGet(p) \/ EurGet(p) \/ EurAdd(p) \/ Touch(p) \/ HBan(p)
    \/ EnsureGet(p) \/ EnsureNow(p) \/ EnsureUpdate(p)
    \/ HQuota(p) \/ HIncr(p) \/ HContent(p) \/ HCharge(p) \/ HLog(p) \/ HFetch(p)

\* the steps of a lookup handler whose user has a row already
LookupStepKnown(p) ==
    \/ HGet(p) \/ Touch(p) \/ HBan(p)
    \/ EnsureGet(p) \/ EnsureNow(p) \/ EnsureUpdate(p)
    \/ HQuota(p) \/ HIncr(p) \/ HContent(p) \/ HCharge(p) \/ HLog(p) \/ HFetch(p)

\* the request of handler p is over and was a lookup
DoneLookup(p) == pc[p] = "done" /\ loc[p].op = "lookup"

\* Database.add_to_blacklist / add_protected_number: one INSERT each
AddToBlacklist ==
    /\ "q_black" \notin blacklist
    /\ blacklist' = blacklist \cup {"q_black"}
    /\ UNCHANGED <<users, referrals, redeem_codes, protected_numbers, search_logs,
                   today, clock, pc, loc, obs, users0>>

AddProtected ==
    /\ "q_prot" \notin protected_numbers
    /\ protected_numbers' = protected_numbers \cup {"q_prot"}
    /\ UNCHANGED <<users, referrals, redeem_codes, blacklist, search_logs,
                   today, clock, pc, loc, obs, users0>>

(***************************************************************************)
(* Scenario A: one user, one day, one group lookup after the other         *)
(***************************************************************************)
InScenarioA ==
    [users |-> {1}, chats |-> {"group"}, queries |-> {"q_clean"},
     costs |-> {0}, members |-> {TRUE}]

\* user 1 is new: no row yet, or the row add_user has just inserted
InitScenarioA ==
    /\ users \in {NoUsers, (1 :> NewUserRow(0, 0))}
    /\ InitRest

NextScenarioA ==
    \/ LookupCall(1, InScenarioA, DAILY_FREE_GROUP_LIMIT + ScenarioExtra)
    \/ LookupStep(1)

SpecScenarioA == InitScenarioA /\ [][NextScenarioA]_vars

\* C10: one after the other on one day, the first 30 group lookups of a
\* user with credits = 0 and daily_search_count = 0 are allowed on the free
\* quota and leave daily_search_count = 30; every later one is denied for
\* exhausted quota and leaves daily_search_count = 30 and credits = 0.
C10_ScenarioA ==
    (pc[1] = "done" /\ loc[1].op = "lookup") =>
        IF clock <= DAILY_FREE_GROUP_LIMIT
        THEN /\ loc[1].outcome = "Allowed" /\ loc[1].via = "free"
             /\ users[1].daily_search_count = clock
             /\ obs.free[1][1] = clock
             /\ users[1].credits = 0
        ELSE /\ loc[1].outcome = "QuotaExhausted"
             /\ users[1].daily_search_count = DAILY_FREE_GROUP_LIMIT
             /\ obs.free[1][1] = DAILY_FREE_GROUP_LIMIT
             /\ users[1].credits = 0

\* C10 witness: the 31st lookup has been denied after 30 free ones.
C10_Witness ==
    /\ pc[1] = "done" /\ clock = DAILY_FREE_GROUP_LIMIT + 1
    /\ loc[1].outcome = "QuotaExhausted"
    /\ users[1].daily_search_count = DAILY_FREE_GROUP_LIMIT
    /\ obs.free[1][1] = DAILY_FREE_GROUP_LIMIT

(***************************************************************************)
(* Lookups in general: any user, chat, query and kind, one at a time       *)
(***************************************************************************)
InAny ==
    [users |-> {1, OWNER_ID}, chats |-> {"group", "private"}, queries |-> Queries,
     costs |-> {0, RC_PDF_COST}, members |-> BOOLEAN]

\* user 1 has made k lookups on the free quota today, k = 0 or at the limit
\* minus one or at the limit, and holds 0 or 1 credit; the owner has no row
InitLookup ==
    /\ \E k \in {0, DAILY_FREE_GROUP_LIMIT - 1, DAILY_FREE_GROUP_LIMIT}, c \in {0, 1} :
          /\ users = (1 :> UserRow(c, 0, k, IF k = 0 THEN 0 ELSE 1, FALSE))
          /\ obs = [Obs0 EXCEPT !.free[1][1] = k, !.charged[1][1] = k]
    /\ InitTables

NextLookupSeq ==
    \/ NewDay
    \/ AddToBlacklist
    \/ AddProtected
    \/ LookupCall(1, InAny, MaxSeqLookups)
    \/ LookupStep(1)

SpecLookupSeq == InitLookup /\ [][NextLookupSeq]_vars

\* C7: a non-privileged group request denied because its query is
\* blacklisted or protected leaves the user's daily_search_count and
\* credits as they were before the request.
C7_DenialLeavesLedger ==
    \A p \in Procs :
        (/\ pc[p] = "done" /\ loc[p].op = "lookup"
         /\ loc[p].outcome \in {"Blacklisted", "Protected"}
         /\ loc[p].chat = "group" /\ ~is_admin(loc[p].user))
        => /\ users[loc[p].user].daily_search_count = loc[p].before.daily_search_count
           /\ users[loc[p].user].credits = loc[p].before.credits

\* C17: whenever a user's last_search_date is date d, the user's
\* daily_search_count is at most the number of counter increments made for
\* that user on d, also when the date changes between a request's
\* ensure_daily_counter and its counter increment.
C17_CountOfItsDay ==
    \A u \in DOMAIN users : \A d \in Days :
        users[u].last_search_date = d =>
            users[u].daily_search_count <= obs.charged[u][d]

InGroup ==
    [users |-> {1}, chats |-> {"group"}, queries |-> {"q_clean"},
     costs |-> {0}, members |-> {TRUE}]

\* user 1 is one free lookup short of the limit or at it, with 0 or 1 credit
InitLookupConc ==
    /\ \E k \in {DAILY_FREE_GROUP_LIMIT - 1, DAILY_FREE_GROUP_LIMIT}, c \in {0, 1} :
          /\ users = (1 :> UserRow(c, 0, k, 1, FALSE))
          /\ obs = [Obs0 EXCEPT !.free[1][1] = k, !.charged[1][1] = k]
    /\ InitTables

NextLookupConc ==
    \/ \E p \in Procs :
          \/ LookupCall(p, InGroup, MaxLookups)
          \/ HGet(p) \/ Touch(p) \/ HBan(p)
          \/ EnsureGet(p) \/ EnsureNow(p) \/ EnsureUpdate(p)
          \/ HQuota(p) \/ HIncr(p) \/ HContent(p) \/ HCharge(p) \/ HLog(p) \/ HFetch(p)

SpecLookupConc == InitLookupConc /\ [][NextLookupConc]_vars

\* C8: the lookups of a user allowed past the free limit never outnumber
\* the credits the user held.
C8_PaidWithinCredits ==
    \A u \in DOMAIN users0 : obs.paid[u] <= users0[u].credits

\* C9: for every user and day, the lookups allowed without a charge never
\* outnumber DAILY_FREE_GROUP_LIMIT.
C9_FreeWithinLimit ==
    \A u \in UserIds : \A d \in Days : obs.free[u][d] <= DAILY_FREE_GROUP_LIMIT

(***************************************************************************)
(* Scenario B: a user at the free limit redeems a credits code and goes on *)
(* with group lookups, one request after the other on one day              *)
(***************************************************************************)
\* user 1 has used the free quota of day 1 and holds no credits; an
\* administrator has created the credits code ABC worth 1..MaxAmount
InitScenarioB ==
    /\ users = (1 :> UserRow(0, 0, DAILY_FREE_GROUP_LIMIT, 1, FALSE))
    /\ \E n \in 1..MaxAmount :
          redeem_codes = ("ABC" :> [code_type |-> "credits", amount |-> n, used_by |-> 0])
    /\ referrals = <<>> /\ blacklist = {} /\ protected_numbers = {}
    /\ search_logs = <<>> /\ today = 1 /\ clock = 0
    /\ pc = [p \in Procs |-> "idle"] /\ loc = [p \in Procs |-> Loc0]
    /\ users0 = users
    /\ obs = [Obs0 EXCEPT !.free[1][1] = DAILY_FREE_GROUP_LIMIT,
                           !.charged[1][1] = DAILY_FREE_GROUP_LIMIT]

\* /redeem from user 1, within the requests of the scenario
RedeemCallB ==
    /\ clock < MaxAmount + ScenarioExtra + 1
    /\ RedeemCall(1)

NextScenarioB ==
    \/ RedeemCallB
    \/ RedeemSelect(1)
    \/ RedeemApply(1)
    \/ LookupCall(1, InScenarioA, MaxAmount + ScenarioExtra + 1)
    \/ LookupStepKnown(1)

SpecScenarioB == InitScenarioB /\ [][NextScenarioB]_vars

\* C11: one request after the other, a user at the free limit with no
\* credits who redeems a credits code worth N has the next N group lookups
\* allowed, each taking exactly 1 credit; then credits = 0 and the lookup
\* after them is denied for exhausted quota.
C11_ScenarioB ==
    LET N == redeem_codes["ABC"].amount
        got == IF redeem_codes["ABC"].used_by = 1 THEN N ELSE 0
    IN  /\ users[1].credits >= 0
        /\ (pc[1] = "done" /\ loc[1].op = "lookup") =>
              /\ users[1].credits = got - obs.paid[1]
              /\ loc[1].outcome \in {"Allowed", "QuotaExhausted"}
              /\ loc[1].outcome = "Allowed" =>
                    /\ loc[1].via = "credit"
                    /\ users[1].credits = loc[1].before.credits - 1
              /\ loc[1].outcome = "QuotaExhausted" =>
                    /\ obs.paid[1] = got
                    /\ users[1].credits = 0
                    /\ loc[1].before.credits = 0

\* C11 witness: the code was worth MaxAmount, MaxAmount lookups have been
\* allowed on credits, and the lookup after them has been denied.
C11_Witness ==
    /\ pc[1] = "done" /\ loc[1].op = "lookup"
    /\ loc[1].outcome = "QuotaExhausted"
    /\ redeem_codes["ABC"].used_by = 1
    /\ redeem_codes["ABC"].amount = MaxAmount
    /\ obs.paid[1] = MaxAmount
    /\ users[1].credits = 0

\* C23: a lookup allowed on a credit does not take a slot of the free
\* quota: daily_search_count rises only while it is below
\* DAILY_FREE_GROUP_LIMIT and so never exceeds it.
C23_CountWithinLimit ==
    \A u \in DOMAIN users : users[u].daily_search_count <= DAILY_FREE_GROUP_LIMIT

\* C29: a code is marked used only when the claiming user's balance of the
\* code's kind has risen by the code's amount: used_by is the id of an
\* account, and the total credited for the code is its amount.
C29_UsedMeansCredited ==
    \A c \in DOMAIN redeem_codes :
        redeem_codes[c].used_by # 0 =>
            /\ redeem_codes[c].used_by \in DOMAIN users
            /\ obs.credited[c] = redeem_codes[c].amount

(***************************************************************************)
(* The gates of handle_lookup: any user, chat and kind, a clean query, one *)
(* request at a time on one day                                            *)
(***************************************************************************)
InGates ==
    [users |-> UserIds, chats |-> {"group", "private"}, queries |-> {"q_clean"},
     costs |-> {0, RC_PDF_COST}, members |-> BOOLEAN]

\* user 1 is registered, banned or not; it either holds MaxBalance diamonds
\* (fewer than an RC-PDF lookup costs) and has never searched, or holds
\* RC_PDF_COST diamonds and 1 credit and has used the free quota of day 1.
\* User 2 and the owner have no row.
InitGates ==
    /\ \E banned \in BOOLEAN, rich \in BOOLEAN :
          LET k == IF rich THEN DAILY_FREE_GROUP_LIMIT ELSE 0
          IN  /\ users = (1 :> IF rich THEN UserRow(1, RC_PDF_COST, k, 1, banned)
                                ELSE UserRow(0, MaxBalance, k, 0, banned))
              /\ obs = [Obs0 EXCEPT !.free[1][1] = k, !.charged[1][1] = k]
    /\ InitTables

NextGates ==
    \/ LookupCall(1, InGates, MaxSeqLookups)
    \/ LookupStep(1)

SpecGates == InitGates /\ [][NextGates]_vars

\* C12: a lookup with diamond cost c > 0 by a non-privileged user holding
\* fewer than c diamonds, which no earlier gate has denied, is denied for
\* insufficient diamonds in a group as in a direct message, and the
\* diamonds are unchanged.
C12_InsufficientDenied ==
    \A p \in Procs :
        (/\ DoneLookup(p) /\ ~is_admin(loc[p].user)
         /\ loc[p].cost > 0 /\ loc[p].before.diamonds < loc[p].cost
         /\ loc[p].outcome \notin {"NotMember", "Banned", "ScopeDenied",
                                   "QuotaExhausted"})
        => /\ loc[p].outcome = "InsufficientDiamonds"
           /\ users[loc[p].user].diamonds = loc[p].before.diamonds

\* C13: every allowed lookup with diamond cost c > 0 by a non-privileged
\* user has taken exactly c diamonds from that user, in a group as in a
\* direct message.
C13_AllowedPaysDiamonds ==
    \A p \in Procs :
        (/\ DoneLookup(p) /\ ~is_admin(loc[p].user)
         /\ loc[p].cost > 0 /\ loc[p].outcome = "Allowed")
        => users[loc[p].user].diamonds = loc[p].before.diamonds - loc[p].cost

\* C14: a lookup by a user whose is_banned flag is set is denied as banned
\* once it is past the membership check, and leaves the user's
\* daily_search_count, last_search_date, credits and diamonds as they were,
\* in every chat and for every kind.
C14_BannedDenied ==
    \A p \in Procs :
        (DoneLookup(p) /\ loc[p].before.is_banned)
        => LET row == users[loc[p].user]
               b == loc[p].before
           IN  /\ loc[p].outcome \in {"Banned", "NotMember"}
               /\ membership_ok(loc[p].user, loc[p].member) => loc[p].outcome = "Banned"
               /\ row.daily_search_count = b.daily_search_count
               /\ row.last_search_date = b.last_search_date
               /\ row.credits = b.credits
               /\ row.diamonds = b.diamonds

\* C14 witness: a banned member holding RC_PDF_COST diamonds and 1 credit
\* asked for an RC-PDF lookup in a group and was denied as banned.
C14_Witness ==
    /\ DoneLookup(1) /\ loc[1].before.is_banned
    /\ loc[1].member /\ loc[1].chat = "group" /\ loc[1].cost = RC_PDF_COST
    /\ loc[1].before.diamonds = RC_PDF_COST
    /\ loc[1].outcome = "Banned"

\* C15: from its arrival on, the request of a non-admin who fails the
\* membership check is over, denied for membership, and no step taken while
\* it is the handler's request changes the users table (no row is created,
\* no field of any row changes), the referrals or the search log.
C15_NonMemberNoAccess ==
    [][\A p \in Procs :
          (/\ loc'[p].op = "lookup"
           /\ ~is_admin(loc'[p].user) /\ ~loc'[p].member)
          => /\ pc'[p] = "done" /\ loc'[p].outcome = "NotMember"
             /\ users' = users
             /\ referrals' = referrals
             /\ search_logs' = search_logs]_vars

\* C15 witness: user 2, who has no row, asked for a lookup without having
\* joined the channels; the request is over and there is still no row.
C15_Witness ==
    /\ DoneLookup(1) /\ loc[1].user = 2 /\ ~loc[1].member
    /\ loc[1].outcome = "NotMember"
    /\ 2 \notin DOMAIN users

\* C16: a direct-message lookup by a user who is neither owner nor sudo is
\* denied, at the scope gate when membership and ban let it through, for
\* every kind and balance, and leaves daily_search_count, credits and
\* diamonds as they were; no group lookup is denied by the scope gate.
C16_ScopeGate ==
    \A p \in Procs :
        DoneLookup(p) =>
            /\ loc[p].chat = "group" => loc[p].outcome # "ScopeDenied"
            /\ (loc[p].chat = "private" /\ ~is_admin(loc[p].user)) =>
                  /\ loc[p].outcome \in {"NotMember", "Banned", "ScopeDenied"}
                  /\ (loc[p].member /\ ~loc[p].before.is_banned)
                        => loc[p].outcome = "ScopeDenied"
                  /\ loc[p].outcome = "ScopeDenied" =>
                        LET row == users[loc[p].user]
                            b == loc[p].before
                        IN  /\ row.daily_search_count = b.daily_search_count
                            /\ row.credits = b.credits
                            /\ row.diamonds = b.diamonds

\* C16 witness: user 1, a member who is not banned and holds RC_PDF_COST
\* diamonds, asked for an RC-PDF lookup in a direct message and was denied
\* at the scope gate.
C16_Witness ==
    /\ DoneLookup(1) /\ loc[1].user = 1 /\ loc[1].chat = "private"
    /\ loc[1].member /\ ~loc[1].before.is_banned
    /\ loc[1].cost = RC_PDF_COST /\ loc[1].before.diamonds = RC_PDF_COST
    /\ loc[1].outcome = "ScopeDenied"
    /\ users[1].diamonds = RC_PDF_COST

(***************************************************************************)
(* Database.add_user statement by statement, with the process lost at any  *)
(* point of the transaction.  tx_users and tx_referrals are the tables as  *)
(* the connection of add_user sees them.  One /start after the other.      *)
(***************************************************************************)
\* INSERT INTO users; IntegrityError on an existing user_id returns False
AuInsert(p) ==
    /\ pc[p] = "eur_add"
    /\ LET l == loc[p]
       IN  IF l.user \in DOMAIN users
           THEN /\ loc' = [loc EXCEPT ![p].via = "conflict"]
                /\ pc' = [pc EXCEPT ![p] = After(l.op, "eur")]
                /\ UNCHANGED users
           ELSE LET w == users @@ (l.user :> NewUserRow(l.referrer, clock))
                IN  /\ loc' = [loc EXCEPT ![p].tx_users = w,
                                          ![p].tx_referrals = referrals]
                    /\ pc' = [pc EXCEPT ![p] = IF l.referrer # 0 THEN "au_select"
                                               ELSE "au_commit"]
                    /\ users' = after_statement(users, w)
    /\ UNCHANGED <<referrals, redeem_codes, blacklist, protected_numbers,
                   search_logs, today, clock, obs, users0>>

\* if referrer_id: SELECT user_id FROM users WHERE user_id = referrer_id
AuSelect(p) ==
    /\ pc[p] = "au_select"
    /\ pc' = [pc EXCEPT ![p] = IF loc[p].referrer \in DOMAIN loc[p].tx_users
                               THEN "au_referral" ELSE "au_commit"]
    /\ UNCHANGED <<users, referrals, redeem_codes, blacklist, protected_numbers,
                   search_logs, today, clock, loc, obs, users0>>

\* INSERT INTO referrals
AuReferral(p) ==
    /\ pc[p] = "au_referral"
    /\ LET l == loc[p]
           w == Append(l.tx_referrals, [referrer_id |-> l.referrer,
                                        referred_id |-> l.user])
       IN  /\ loc' = [loc EXCEPT ![p].tx_referrals = w]
           /\ referrals' = after_statement(referrals, w)
    /\ pc' = [pc EXCEPT ![p] = "au_reward"]
    /\ UNCHANGED <<users, redeem_codes, blacklist, protected_numbers,
                   search_logs, today, clock, obs, users0>>

\* UPDATE users SET referred_count + 1, diamonds + REFERRAL_REWARD_DIAMOND
AuReward(p) ==
    /\ pc[p] = "au_reward"
    /\ LET l == loc[p]
           w == [l.tx_users EXCEPT ![l.referrer].referred_count = @ + 1,
                                   ![l.referrer].diamonds = @ + REFERRAL_REWARD_DIAMOND]
       IN  /\ loc' = [loc EXCEPT ![p].tx_users = w]
           /\ users' = after_statement(users, w)
    /\ pc' = [pc EXCEPT ![p] = "au_commit"]
    /\ UNCHANGED <<referrals, redeem_codes, blacklist, protected_numbers,
                   search_logs, today, clock, obs, users0>>

\* conn.commit(); return True
AuCommit(p) ==
    /\ pc[p] = "au_commit"
    /\ users' = loc[p].tx_users
    /\ referrals' = loc[p].tx_referrals
    /\ loc' = [loc EXCEPT ![p].via = "created", ![p].tx_users = NoUsers,
                          ![p].tx_referrals = <<>>]
    /\ obs' = [obs EXCEPT !.created[loc[p].user] = @ + 1]
    /\ pc' = [pc EXCEPT ![p] = After(loc[p].op, "eur")]
    /\ UNCHANGED <<redeem_codes, blacklist, protected_numbers, search_logs,
                   today, clock, users0>>

\* the process is lost inside add_user, before commit(): the open
\* transaction is rolled back; `via` keeps the statement that was next
AuCrash(p) ==
    /\ pc[p] \in {"au_select", "au_referral", "au_reward", "au_commit"}
    /\ loc' = [loc EXCEPT ![p] = [Returned(loc[p]) EXCEPT !.outcome = "crashed",
                                                        !.via = pc[p]]]
    /\ pc' = [pc EXCEPT ![p] = "done"]
    /\ UNCHANGED <<users, referrals, redeem_codes, blacklist, protected_numbers,
                   search_logs, today, clock, obs, users0>>

NextReferTx ==
    \/ StartCall(1) \/ EurGet(1)
    \/ AuInsert(1) \/ AuSelect(1) \/ AuReferral(1) \/ AuReward(1) \/ AuCommit(1)
    \/ AuCrash(1)
    \/ Touch(1) \/ EnsureGet(1) \/ EnsureNow(1) \/ EnsureUpdate(1)

SpecReferTx == InitRefer /\ [][NextReferTx]_vars

\* the users row of r before any referral of this behaviour
BaseRow(r) == IF r \in DOMAIN users0 THEN users0[r] ELSE NoRow

\* C18: in every state of the database file, also in the middle of
\* add_user and after the process was lost at any of its statements, a
\* referrals row exists only with the row of the referred user, an account
\* created with an existing referrer has its referrals row, and every
\* referrer's referred_count and diamonds count exactly its referrals rows.
C18_AllOrNothing ==
    /\ \A i \in 1..Len(referrals) :
          /\ referrals[i].referred_id \in DOMAIN users
          /\ referrals[i].referrer_id \in DOMAIN users
          /\ users[referrals[i].referred_id].referrer_id = referrals[i].referrer_id
    /\ \A u \in DOMAIN users :
          (u \notin DOMAIN users0 /\ users[u].referrer_id \in DOMAIN users0)
             => Cardinality(ReferralsOf(u)) = 1
    /\ \A r \in DOMAIN users :
          /\ users[r].referred_count =
                BaseRow(r).referred_count + Cardinality(ReferralsBy(r))
          /\ users[r].diamonds =
                BaseRow(r).diamonds + REFERRAL_REWARD_DIAMOND * Cardinality(ReferralsBy(r))

\* C18 witness: add_user for the new user 2 with referrer 1 ran all its
\* statements and the process was lost before commit(): there is no row
\* for user 2, no referrals row, and the referrer holds what it held.
C18_Witness ==
    /\ pc[1] = "done" /\ loc[1].outcome = "crashed" /\ loc[1].via = "au_commit"
    /\ loc[1].user = 2 /\ loc[1].referrer = 1
    /\ 2 \notin DOMAIN users
    /\ referrals = <<>>
    /\ users[1] = users0[1]

\* C19: an account created with a referrer_id that has no account records
\* no referrer: an account whose referrer_id is set has its referrals row,
\* and every referrals row names a referrer that has an account.
C19_UnknownReferrerIgnored ==
    /\ \A i \in 1..Len(referrals) : referrals[i].referrer_id \in DOMAIN users
    /\ \A u \in DOMAIN users :
          (u \notin DOMAIN users0 /\ users[u].referrer_id # 0)
             => \E i \in ReferralsOf(u) :
                   referrals[i].referrer_id = users[u].referrer_id

(***************************************************************************)
(* /start always carrying a referrer argument: the sender's own id, the    *)
(* id of a registered user or an id that has no account                    *)
(***************************************************************************)
NextReferArg ==
    \E p \in Procs :
        \/ StartFrom(p, UserIds) \/ EurGet(p) \/ EurAdd(p) \/ Touch(p)
        \/ EnsureGet(p) \/ EnsureNow(p) \/ EnsureUpdate(p)

SpecReferArg == InitRefer /\ [][NextReferArg]_vars

\* C20: no account has its own user_id as referrer_id, no referrals row and
\* no reward is for the referrer's own account, and no step changes the
\* referrer_id of an account that exists, whatever referrer argument
\* /start carries.
C20_NoSelfReferral ==
    /\ [](/\ \A u \in DOMAIN users : users[u].referrer_id # u
          /\ \A i \in 1..Len(referrals) :
                referrals[i].referrer_id # referrals[i].referred_id
          /\ \A r \in DOMAIN users :
                users[r].diamonds =
                   BaseRow(r).diamonds + REFERRAL_REWARD_DIAMOND *
                      Cardinality({i \in ReferralsBy(r) : referrals[i].referred_id # r}))
    /\ [][\A u \in DOMAIN users : users'[u].referrer_id = users[u].referrer_id]_vars

\* C20 witness: /start from the new user 2 carried a referrer argument,
\* which can only have been 2 itself as the handler dropped it; the
\* account was created with no referrer, no referrals row and no reward.
C20_Witness ==
    \E p \in Procs :
        /\ pc[p] = "done" /\ loc[p].op = "start" /\ loc[p].user = 2
        /\ loc[p].referrer = 0 /\ loc[p].via = "created"
        /\ users[2].referrer_id = 0 /\ users[2].diamonds = 0
        /\ referrals = <<>>

(***************************************************************************)
(* The content gate and the privileged users: user 1, the owner and a sudo *)
(* user who is not the owner, any chat, query and kind, one request at a   *)
(* time                                                                    *)
(***************************************************************************)
InContent ==
    [users |-> {1, OWNER_ID, SUDO_ID}, chats |-> {"group", "private"},
     queries |-> Queries, costs |-> {0, RC_PDF_COST}, members |-> {TRUE}]

\* all three are registered; the owner and the sudo user hold 1 credit and
\* RC_PDF_COST diamonds, user 1 holds nothing
InitContent ==
    /\ users = [u \in {1, OWNER_ID, SUDO_ID} |->
                   IF is_admin(u) THEN UserRow(1, RC_PDF_COST, 0, 0, FALSE)
                   ELSE UserRow(0, 0, 0, 0, FALSE)]
    /\ InitRest

NextContent ==
    \/ AddToBlacklist
    \/ AddProtected
    \/ LookupCall(1, InContent, MaxSeqLookups)
    \/ LookupStepKnown(1)

SpecContent == InitContent /\ [][NextContent]_vars

\* C24: at the content gate a blacklisted query is denied for every
\* requester, owner and sudo included, and a protected query for every
\* requester but the owner; a request denied there has written no log entry
\* and has not reached the fetch.
C24_ContentGate ==
    /\ [](\A p \in Procs :
            (DoneLookup(p) /\ loc[p].outcome \in {"Blacklisted", "Protected"})
               => Len(search_logs) = loc[p].logs)
    /\ [][\A p \in Procs :
            (pc[p] = "h_content" /\ pc'[p] # "h_content") =>
               LET l == loc[p]
               IN  /\ l.query \in blacklist
                      => pc'[p] = "done" /\ loc'[p].outcome = "Blacklisted"
                   /\ (l.query \notin blacklist /\ l.query \in protected_numbers
                       /\ l.user # OWNER_ID)
                      => pc'[p] = "done" /\ loc'[p].outcome = "Protected"
                   /\ (l.query \notin blacklist
                       /\ (l.query \notin protected_numbers \/ l.user = OWNER_ID))
                      => pc'[p] = "h_charge"
                   /\ search_logs' = search_logs]_vars

\* C24 witness: the sudo user who is not the owner asked for a protected
\* number and was denied; nothing was logged.
C24_Witness ==
    /\ DoneLookup(1) /\ loc[1].user = SUDO_ID /\ loc[1].query = "q_prot"
    /\ loc[1].outcome = "Protected"
    /\ Len(search_logs) = loc[1].logs

\* C25: a lookup by the owner or a sudo user leaves that user's
\* daily_search_count, credits and diamonds as they were, in a direct
\* message and in a group, for every kind.
C25_PrivilegedFree ==
    \A p \in Procs :
        (DoneLookup(p) /\ is_admin(loc[p].user)) =>
            LET row == users[loc[p].user]
                b == loc[p].before
            IN  /\ row.daily_search_count = b.daily_search_count
                /\ row.credits = b.credits
                /\ row.diamonds = b.diamonds

\* C25 witness: the sudo user's RC-PDF lookup in a direct message was
\* allowed and the user's RC_PDF_COST diamonds are still there.
C25_Witness ==
    /\ DoneLookup(1) /\ loc[1].user = SUDO_ID /\ loc[1].chat = "private"
    /\ loc[1].cost = RC_PDF_COST /\ loc[1].outcome = "Allowed"
    /\ users[SUDO_ID].diamonds = RC_PDF_COST
    /\ users[SUDO_ID].daily_search_count = 0

\* what an allowed request of handler p has taken: the counter increment of
\* a non-admin group lookup, the credit past the free limit, the diamonds
Charged(p) ==
    LET l == loc[p]
        row == users[l.user]
    IN  /\ row.daily_search_count =
              l.before.daily_search_count + (IF l.via \in {"free", "credit"} THEN 1 ELSE 0)
        /\ row.credits = l.before.credits - (IF l.via = "credit" THEN 1 ELSE 0)
        /\ row.diamonds = l.before.diamonds - charge_of(l.user, l.chat, l.cost)

\* C27: when the fetch of an allowed request begins its counter increment
\* or deduction is in the store, and it is still there when the request is
\* over, also when the fetch failed or returned nothing.
C27_ChargeBeforeFetchNoRefund ==
    \A p \in Procs :
        (loc[p].op = "lookup" /\ (pc[p] = "h_fetch" \/ (pc[p] = "done" /\ loc[p].outcome = "Allowed")))
        => Charged(p)

\* C27 witness: a lookup past the free limit took the user's credit, the
\* fetch returned nothing, and the credit and the counter stay as charged.
C27_Witness ==
    /\ DoneLookup(1) /\ loc[1].outcome = "Allowed" /\ ~loc[1].fetch_ok
    /\ loc[1].via = "credit"
    /\ loc[1].before.credits = 1 /\ users[1].credits = 0
    /\ users[1].daily_search_count = loc[1].before.daily_search_count + 1

(***************************************************************************)
(* Lookups of one user in flight at once, the first of the user's day      *)
(***************************************************************************)
\* user 1 is registered and has never searched: last_search_date is NULL
InitLookupFresh ==
    /\ users = (1 :> UserRow(0, 0, 0, 0, FALSE))
    /\ InitRest

SpecLookupFresh == InitLookupFresh /\ [][NextLookupConc]_vars

\* C28: for every user and date d, while last_search_date is d the user's
\* daily_search_count is at least the number of the user's lookups allowed
\* on the free quota of d: no reset erases a counted lookup of the day.
C28_NoneUncounted ==
    \A u \in DOMAIN users : \A d \in Days :
        users[u].last_search_date = d =>
            users[u].daily_search_count >= obs.free[u][d]

====
